---- MODULE Spec2Model ----
(***************************************************************************)
(* Page-aware compliance-check pipeline of complicheckai-studio:           *)
(*   backend/services/config_service.py          (rule catalog lookup)     *)
(*   backend/services/page_classification_service.py (page classifier)     *)
(*   backend/routers/checks.py   (batch planner, check evaluator, runs,    *)
(*                                check batch job)                         *)
(*   backend/routers/batch.py    (parse batch job)                         *)
(***************************************************************************)
EXTENDS Integers, Sequences, FiniteSets, TLC

VARIABLES
  call, ret,              \* a single call of one component and what it returned
  document,               \* the parsed document: page_count and its chunks
  provider,               \* how the completion provider answers in this behaviour
  page_classifications,   \* committed PageClassification rows of its parse result
  check_results,          \* committed CheckResult rows of the document, oldest first
  run_log,                \* for each CheckResult, the batches and provider answers of its run
  settings,               \* ProjectSettings usage totals
  next_id,                \* next PageClassification id
  ops,                    \* operations started so far
  runner,                 \* the requests and the background job in progress
  batch_run,              \* the BatchCheckRun row of a check batch job
  job,                    \* process_batch_checks: its position and local variables
  project,                \* the documents of the project the check batch job works on
  batch_job,              \* the BatchJob row of a parse batch job
  tasks,                  \* its BatchTask rows and the coroutine of each
  semaphore,              \* run_batch_job: its asyncio.Semaphore, its value and its waiters
  loop                    \* the callbacks the event loop has ready, in the order it runs them

harness == <<call, ret>>

orchestrators == <<batch_run, job, project, batch_job, tasks, semaphore, loop>>

store == <<document, provider, page_classifications, check_results, run_log, settings, next_id, ops, runner,
           orchestrators>>

vars == <<call, ret, document, provider, page_classifications, check_results, run_log, settings,
          next_id, ops, runner, batch_run, job, project, batch_job, tasks, semaphore, loop>>

None == [kind |-> "none"]

(***************************************************************************)
(* Bounds of the model.                                                    *)
(***************************************************************************)
MaxPages == 3

\* pages of the batch handed to the evaluator alone
MaxEvalPages == 2

\* entries in one provider answer
MaxEntries == 2

\* page_count of the document handed to the classifier alone
MaxClassifyPages == 2

\* page_count of the stored document
DocPages == 2

\* operations (requests, job documents) started in one behaviour
MaxOps == 2

\* documents of the project when a check batch job is requested
JobDocs == 2

\* commits the database refuses in one behaviour
MaxCommitFailures == 1

(***************************************************************************)
(* Generic helpers.                                                        *)
(***************************************************************************)
Range(s) == {s[i] : i \in 1..Len(s)}

RECURSIVE SumSeq(_)
SumSeq(s) == IF s = <<>> THEN 0 ELSE Head(s) + SumSeq(Tail(s))

SeqsUpTo(S, n) == UNION {[1..k -> S] : k \in 0..n}

(***************************************************************************)
(* Rule catalog (config/compliance_checks_v3.json; the file is not part of *)
(* the sources, the catalog below is the one of the concrete scenario of   *)
(* the specification plus a check that applies to no page type).           *)
(***************************************************************************)
CHECKS_V3 ==
  << [id |-> "has_title",     category |-> "completeness", applies_to |-> {"cover_sheet"}],
     [id |-> "has_date",      category |-> "completeness", applies_to |-> {"cover_sheet"}],
     [id |-> "has_scale_bar", category |-> "compliance",   applies_to |-> {"site_plan"}],
     [id |-> "orphan_check",  category |-> "compliance",   applies_to |-> {}] >>

PageTypes == {"cover_sheet", "site_plan", "unknown"}

\* config_service.get_checks_v3
get_checks_v3 == CHECKS_V3

\* every check of the catalog applies to every page type
get_checks_for_page_type_all(page_type) == get_checks_v3

\* config_service.get_checks_for_page_type
get_checks_for_page_type(page_type) ==
  SelectSeq(get_checks_v3, LAMBDA check : page_type \in check.applies_to)

(***************************************************************************)
(* Batch planner: checks.create_smart_batches.                             *)
(* A page classification row is [id, page_number, page_type]; the content  *)
(* of a page enters only through len(page_content), so chunks_by_page maps *)
(* a page number that has chunks to that length.                           *)
(***************************************************************************)
MAX_BATCH_CHARS == 50000

\* len("\n\n---PAGE BOUNDARY---\n\n")
BoundaryLen == 23

\* len(str(n)) for the page numbers of the model
Digits(n) == IF n < 10 THEN 1 ELSE IF n < 100 THEN 2 ELSE 3

\* len(f"=== PAGE {page_num} ===\n")
HeaderLen(page_num) == 9 + Digits(page_num) + 5

\* len(page_content) of chunks_by_page.get(page_num, [])
page_chars(chunks_by_page, page_num) ==
  IF page_num \in DOMAIN chunks_by_page THEN chunks_by_page[page_num] ELSE 0

\* len("\n\n---PAGE BOUNDARY---\n\n".join(current_batch_content))
JoinLen(content) ==
  IF content = <<>> THEN 0 ELSE SumSeq(content) + BoundaryLen * (Len(content) - 1)

\* pages_by_type keys, in insertion order
RECURSIVE TypeOrder(_)
TypeOrder(pcs) ==
  IF pcs = <<>> THEN <<>>
  ELSE LET rest == TypeOrder(SelectSeq(Tail(pcs), LAMBDA pc : pc.page_type # Head(pcs).page_type))
       IN <<Head(pcs).page_type>> \o rest

\* pages_by_type[page_type]
pages_by_type(pcs, page_type) == SelectSeq(pcs, LAMBDA pc : pc.page_type = page_type)

MakeBatch(page_type, cur) ==
  [page_type |-> page_type,
   pages |-> cur.pages,
   page_classifications |-> cur.classifications,
   combined_len |-> JoinLen(cur.content)]

EmptyCurrent == [pages |-> <<>>, classifications |-> <<>>, content |-> <<>>, chars |-> 0]

\* the test that closes the current batch before a page is added
MustFinalize(cur, pchars, max_chars) ==
  cur.chars > 0 /\ cur.chars + pchars > max_chars

\* "Don't forget the last batch"
LastBatch_dropped(page_type, cur) == <<>>

LastBatch(page_type, cur) ==
  IF cur.pages # <<>> THEN <<MakeBatch(page_type, cur)>> ELSE <<>>

\* the loop over the classifications of one page type
RECURSIVE TypeBatches(_, _, _, _, _)
TypeBatches(page_type, classifications, cur, chunks_by_page, max_chars) ==
  IF classifications = <<>> THEN LastBatch(page_type, cur)
  ELSE
    LET pc == Head(classifications)
        page_num == pc.page_number
        pchars == page_chars(chunks_by_page, page_num)
        flush == MustFinalize(cur, pchars, max_chars)
        base == IF flush THEN EmptyCurrent ELSE cur
        next == [pages |-> Append(base.pages, page_num),
                 classifications |-> Append(base.classifications, pc),
                 content |-> Append(base.content, HeaderLen(page_num) + pchars),
                 chars |-> base.chars + pchars]
    IN (IF flush THEN <<MakeBatch(page_type, cur)>> ELSE <<>>)
       \o TypeBatches(page_type, Tail(classifications), next, chunks_by_page, max_chars)

RECURSIVE BatchesOfTypes(_, _, _, _)
BatchesOfTypes(types, pcs, chunks_by_page, max_chars) ==
  IF types = <<>> THEN <<>>
  ELSE TypeBatches(Head(types), pages_by_type(pcs, Head(types)), EmptyCurrent,
                   chunks_by_page, max_chars)
       \o BatchesOfTypes(Tail(types), pcs, chunks_by_page, max_chars)

create_smart_batches(pcs, chunks_by_page, max_chars) ==
  BatchesOfTypes(TypeOrder(pcs), pcs, chunks_by_page, max_chars)

(***************************************************************************)
(* Text returned by the completion provider.  A text is a sequence of      *)
(* tokens: a json-tagged code fence, a plain code fence, prose, or one     *)
(* JSON value.                                                             *)
(* ExtractJson is the fence stripping both the classifier and the          *)
(* evaluator apply before json.loads.                                      *)
(***************************************************************************)
FenceJson == [tok |-> "fence_json", val |-> None]
Fence     == [tok |-> "fence",     val |-> None]
Prose     == [tok |-> "prose",   val |-> None]
Json(v)   == [tok |-> "json",    val |-> v]

\* the three backticks of a plain fence also open a json-tagged fence
IsFence(t) == t.tok \in {"fence_json", "fence"}

\* index of the first TRUE of a sequence of booleans, 0 if there is none
FirstIndex(flags) ==
  IF \E i \in 1..Len(flags) : flags[i]
  THEN CHOOSE i \in 1..Len(flags) : flags[i] /\ \A j \in 1..(i - 1) : ~flags[j]
  ELSE 0

\* s.split(fence)[0]
UpToFence(s) ==
  LET i == FirstIndex([n \in 1..Len(s) |-> IsFence(s[n])]) IN IF i = 0 THEN s ELSE SubSeq(s, 1, i - 1)

\* s.split(sep)[1] for a text that contains sep
AfterFirst(s, sep) ==
  LET i == FirstIndex([n \in 1..Len(s) |-> s[n].tok \in sep])
      rest == SubSeq(s, i + 1, Len(s))
      k == FirstIndex([n \in 1..Len(rest) |-> rest[n].tok \in sep])
  IN IF k = 0 THEN rest ELSE SubSeq(rest, 1, k - 1)

ExtractJson(text) ==
  IF \E i \in 1..Len(text) : text[i].tok = "fence_json"
  THEN UpToFence(AfterFirst(text, {"fence_json"}))
  ELSE IF \E i \in 1..Len(text) : IsFence(text[i])
  THEN UpToFence(AfterFirst(text, {"fence", "fence_json"}))
  ELSE text

\* json.loads(text.strip()) succeeds on exactly one JSON value
JsonLoads(text) ==
  IF Len(text) = 1 /\ text[1].tok = "json"
  THEN [ok |-> TRUE, val |-> text[1].val]
  ELSE [ok |-> FALSE, val |-> None]

\* the ways a provider wraps a JSON value v in its answer
TextForms(v) ==
  { <<Json(v)>>,
    <<Prose, FenceJson, Json(v), Fence, Prose>>,
    <<Fence, Json(v), Fence>>,
    <<Prose, Json(v)>> }

(***************************************************************************)
(* Check evaluator: checks.run_batch_checks_ai.                            *)
(* A provider response either raises or returns a text and token usage.    *)
(* A JSON value is [shape, results]: an object with a "results" list, or   *)
(* valid JSON of another shape (an array).  An entry of the list is        *)
(* [page_number, check_id, status, confidence, notes]; Missing marks a key *)
(* the entry does not have.  notes are kept as the pieces of the string.   *)
(***************************************************************************)
Missing == "<missing>"

\* the same mark for a number and for notes
MissingNumber == -1

MissingNotes == <<Missing>>

ProviderUsage == [input_tokens |-> 2, output_tokens |-> 1]

ProviderError == "provider failure"

AttributeError == "'list' object has no attribute 'get'"

RaisedResponse ==
  [kind |-> "raise", msg |-> ProviderError, text |-> <<>>,
   usage |-> [input_tokens |-> 0, output_tokens |-> 0]]

TextResponse(t) == [kind |-> "text", msg |-> Missing, text |-> t, usage |-> ProviderUsage]

\* dict.get(key, default)
Get(value, default) == IF value = Missing THEN default ELSE value

\* the verdict synthesised for a pair the response does not mention
NotEvaluated(check) ==
  [check_id |-> check.id, status |-> "fail", confidence |-> 0, notes |-> <<"Not evaluated">>]

\* next((r for r in results_by_page[page_num] if r.get("check_id") == check["id"]), default)
FirstResult(page_results, check) ==
  LET i == FirstIndex([n \in 1..Len(page_results) |-> page_results[n].check_id = check.id])
  IN IF i = 0 THEN NotEvaluated(check) ELSE page_results[i]

\* one element of page_check_results
Verdict(check, ai_result) ==
  [check_id |-> check.id,
   category |-> check.category,
   status |-> Get(ai_result.status, "fail"),
   confidence |-> IF ai_result.confidence = MissingNumber THEN 0 ELSE ai_result.confidence,
   notes |-> IF ai_result.notes = MissingNotes THEN <<>> ELSE ai_result.notes]

\* results_by_page[page_num]: the entries of the response for a page of the batch
results_by_page(results, page_num) ==
  SelectSeq(results, LAMBDA r : r.page_number = page_num)

PageResult(page_num, page_type, checks, results) ==
  [page_number |-> page_num,
   page_type |-> page_type,
   results |-> [k \in 1..Len(checks) |->
                  Verdict(checks[k], FirstResult(results_by_page(results, page_num), checks[k]))]]

ErrorVerdict(check, msg) ==
  [check_id |-> check.id, category |-> check.category,
   status |-> "fail", confidence |-> 0, notes |-> <<"Error: ", msg>>]

\* the except branch: error results for all pages, no usage
ErrorResult_keepsUsage(batch, checks, msg) ==
  [page_results |-> [i \in 1..Len(batch.pages) |->
      [page_number |-> batch.pages[i], page_type |-> batch.page_type,
       results |-> [k \in 1..Len(checks) |-> ErrorVerdict(checks[k], msg)]]],
   usage |-> ProviderUsage,
   error |-> msg]

ErrorResult(batch, checks, msg) ==
  [page_results |-> [i \in 1..Len(batch.pages) |->
      [page_number |-> batch.pages[i], page_type |-> batch.page_type,
       results |-> [k \in 1..Len(checks) |-> ErrorVerdict(checks[k], msg)]]],
   usage |-> [input_tokens |-> 0, output_tokens |-> 0],
   error |-> msg]

\* ai_results after the inner try/except around json.loads
ParsedResults(text) ==
  LET loaded == JsonLoads(ExtractJson(text))
  IN IF loaded.ok THEN loaded.val ELSE [shape |-> "object", results |-> <<>>]

run_batch_checks_ai(batch, checks, resp) ==
  IF resp.kind = "raise" THEN ErrorResult(batch, checks, resp.msg)
  ELSE
    LET ai_results == ParsedResults(resp.text) IN
      IF ai_results.shape # "object"
      THEN ErrorResult(batch, checks, AttributeError)
      ELSE [page_results |-> [i \in 1..Len(batch.pages) |->
               PageResult(batch.pages[i], batch.page_type, checks, ai_results.results)],
            usage |-> resp.usage,
            error |-> Missing]

(***************************************************************************)
(* Page classifier: PageClassificationService.classify_pages.              *)
(* A JSON value is [shape, classifications]; an entry of the list is       *)
(* [page, page_type, confidence, signals, error].  The chunks enter only   *)
(* the prompt, kept as the pages for which the prompt shows content.       *)
(***************************************************************************)
UnknownPage(i, err) ==
  [page |-> i, page_type |-> "unknown", confidence |-> 0, signals |-> <<>>, error |-> err]

\* [{"page": i, "page_type": "unknown", ...} for i in range(1, page_count + 1)]
AllUnknown_shortRange(page_count, err) == [i \in 1..(page_count - 1) |-> UnknownPage(i, err)]

AllUnknown(page_count, err) == [i \in 1..page_count |-> UnknownPage(i, err)]

\* the pages of range(1, page_count + 1) that are not in classified_pages, ascending
RECURSIVE UncoveredFrom(_, _, _)
UncoveredFrom(page_num, page_count, classified_pages) ==
  IF page_num > page_count THEN <<>>
  ELSE (IF page_num \notin classified_pages THEN <<UnknownPage(page_num, Missing)>> ELSE <<>>)
       \o UncoveredFrom(page_num + 1, page_count, classified_pages)

\* "Ensure all pages are covered"
EnsureCovered(classifications, page_count) ==
  classifications
    \o UncoveredFrom(1, page_count, {classifications[i].page : i \in 1..Len(classifications)})

\* list.sort(key=lambda x: x["page"]): stable, ascending
RECURSIVE InsertByPage(_, _)
InsertByPage(sorted, c) ==
  IF sorted = <<>> THEN <<c>>
  ELSE IF c.page < Head(sorted).page THEN <<c>> \o sorted
  ELSE <<Head(sorted)>> \o InsertByPage(Tail(sorted), c)

RECURSIVE SortByPage(_)
SortByPage(cs) ==
  IF cs = <<>> THEN <<>>
  ELSE InsertByPage(SortByPage(SubSeq(cs, 1, Len(cs) - 1)), cs[Len(cs)])

\* pages_content keys: chunk.get("page_number", 1) of every chunk
pages_content(chunks) == {chunks[i].page_number : i \in 1..Len(chunks)}

\* the PAGE sections of the prompt: TRUE where the page has extracted content
Prompt(chunks, page_count) == [page_num \in 1..page_count |-> page_num \in pages_content(chunks)]

\* the except branch of the whole call
ClassifyError(page_count, prompt, msg) ==
  [classifications |-> AllUnknown(page_count, msg), provider_calls |-> <<prompt>>]

classify_pages(chunks, page_count, resp) ==
  LET prompt == Prompt(chunks, page_count) IN
  IF resp.kind = "raise" THEN ClassifyError(page_count, prompt, resp.msg)
  ELSE
    LET loaded == JsonLoads(ExtractJson(resp.text)) IN
      IF ~loaded.ok
      THEN \* json.JSONDecodeError: unknown for all pages, then the common tail
           [classifications |-> SortByPage(EnsureCovered(AllUnknown(page_count, Missing), page_count)),
            provider_calls |-> <<prompt>>]
      ELSE IF loaded.val.shape # "object"
      THEN ClassifyError(page_count, prompt, AttributeError)
      ELSE IF \E i \in 1..Len(loaded.val.classifications) :
                loaded.val.classifications[i].page = MissingNumber
      THEN ClassifyError(page_count, prompt, "'page'")
      ELSE [classifications |-> SortByPage(EnsureCovered(loaded.val.classifications, page_count)),
            provider_calls |-> <<prompt>>]

(***************************************************************************)
(* Relational store and the operations that run checks on the document:    *)
(* checks.run_document_checks_v3, parse.classify_pages (the endpoint),     *)
(* and the per-document body of checks.process_batch_checks.  Every action *)
(* is one stretch of a handler between two points where another session    *)
(* can commit; a provider call touches no shared state and is taken        *)
(* together with the statements that follow it.                            *)
(***************************************************************************)
Runners == {"r1", "r2"}

NoUsage == [input_tokens |-> 0, output_tokens |-> 0]

Idle ==
  [op |-> "idle", pc |-> "idle", force |-> FALSE, classified |-> FALSE,
   pcs |-> <<>>, batches |-> <<>>, responses |-> <<>>, results |-> <<>>,
   usage |-> NoUsage, run_count |-> 0, settings_seen |-> NoUsage]

\* the chunks of the stored document; a chunk stands for all the chunks of its
\* page, chars being the length of their joined content: two pages of one
\* type fit a batch, three do not
DocChunks == [p \in 1..DocPages |-> [page_number |-> p, chars |-> 20000]]

\* The provider answers the same prompt the same way throughout a behaviour:
\* one kind of answer to the classification prompt of the document and one
\* kind of answer to the evaluation prompts of each page type.
ClassifyKinds == {"raise", "one_type", "two_types", "repeated_page", "extra_page", "no_page_type"}

EvalScripts ==
  {[cover_sheet |-> "complete", site_plan |-> "complete"],
   [cover_sheet |-> "partial", site_plan |-> "partial"],
   [cover_sheet |-> "raise", site_plan |-> "complete"],
   [cover_sheet |-> "raise", site_plan |-> "raise"],
   [cover_sheet |-> "other_status", site_plan |-> "complete"]}

Providers == {[classify |-> c, evaluate |-> e] : c \in ClassifyKinds, e \in EvalScripts}

ClassifyEntry(p, ty) ==
  [page |-> p, page_type |-> ty, confidence |-> 90, signals |-> <<"SITE PLAN">>, error |-> Missing]

ObjectAnswer(cs) == TextResponse(<<Json([shape |-> "object", classifications |-> cs])>>)

\* the answer of the provider to the classification prompt of a document
ClassifyResponse(kind, page_count) ==
  CASE kind = "raise" -> RaisedResponse
    [] kind = "one_type" -> ObjectAnswer([p \in 1..page_count |-> ClassifyEntry(p, "cover_sheet")])
    [] kind = "two_types" ->
         ObjectAnswer([p \in 1..page_count |->
                         ClassifyEntry(p, IF p % 2 = 1 THEN "cover_sheet" ELSE "site_plan")])
    [] kind = "repeated_page" ->
         ObjectAnswer(<<ClassifyEntry(1, "cover_sheet"), ClassifyEntry(1, "cover_sheet")>>)
    [] kind = "extra_page" ->
         ObjectAnswer([p \in 1..(page_count + 1) |-> ClassifyEntry(p, "site_plan")])
    [] kind = "no_page_type" ->
         ObjectAnswer(<<ClassifyEntry(1, "cover_sheet"), ClassifyEntry(2, Missing)>>)

EvalEntry(p, c, v) ==
  [page_number |-> p, check_id |-> c,
   status |-> v.status, confidence |-> v.confidence, notes |-> v.notes]

Passed == [status |-> "pass", confidence |-> 95, notes |-> <<"seen">>]

Unclear == [status |-> "needs_review", confidence |-> 60, notes |-> <<"seen">>]

\* a verdict whose status is none of pass, fail, needs_review, na
Partly == [status |-> "partial", confidence |-> 70, notes |-> <<"seen">>]

ResultsAnswer(rs) == TextResponse(<<Prose, FenceJson, Json([shape |-> "object", results |-> rs]), Fence>>)

\* the answer of the provider to the evaluation prompt of a batch
EvalResponse(kind, batch, checks) ==
  CASE kind = "raise" -> RaisedResponse
    [] kind = "complete" ->
         ResultsAnswer([n \in 1..(Len(batch.pages) * Len(checks)) |->
                          EvalEntry(batch.pages[((n - 1) \div Len(checks)) + 1],
                                    checks[((n - 1) % Len(checks)) + 1].id, Passed)])
    [] kind = "partial" ->
         ResultsAnswer(<<EvalEntry(batch.pages[1], checks[1].id, Unclear)>>)
    [] kind = "other_status" ->
         ResultsAnswer([n \in 1..(Len(batch.pages) * Len(checks)) |->
                          EvalEntry(batch.pages[((n - 1) \div Len(checks)) + 1],
                                    checks[((n - 1) % Len(checks)) + 1].id,
                                    IF n = 1 THEN Partly ELSE Passed)])

\* no batch job exists
OrchestratorsUnused ==
  /\ batch_run = None
  /\ job = None
  /\ project = None
  /\ batch_job = None
  /\ tasks = <<>>
  /\ semaphore = None
  /\ loop = <<>>

StoreInit ==
  /\ document = [page_count |-> DocPages, chunks |-> DocChunks]
  /\ provider \in Providers
  /\ page_classifications = <<>>
  /\ check_results = <<>>
  /\ run_log = <<>>
  /\ settings = NoUsage
  /\ next_id = 1
  /\ ops = 0
  /\ runner = [r \in Runners |-> Idle]
  /\ OrchestratorsUnused

\* the store while a single component is exercised
StoreUnused ==
  /\ document = [page_count |-> DocPages, chunks |-> <<>>]
  /\ provider = [classify |-> "raise", evaluate |-> [cover_sheet |-> "raise", site_plan |-> "raise"]]
  /\ page_classifications = <<>>
  /\ check_results = <<>>
  /\ run_log = <<>>
  /\ settings = NoUsage
  /\ next_id = 1
  /\ ops = 0
  /\ runner = [r \in Runners |-> Idle]
  /\ OrchestratorsUnused

\* .order_by(PageClassification.page_number).all()
RECURSIVE InsertRow(_, _)
InsertRow(sorted, row) ==
  IF sorted = <<>> THEN <<row>>
  ELSE IF row.page_number < Head(sorted).page_number THEN <<row>> \o sorted
  ELSE <<Head(sorted)>> \o InsertRow(Tail(sorted), row)

RECURSIVE OrderByPageNumber(_)
OrderByPageNumber(rows) ==
  IF rows = <<>> THEN <<>>
  ELSE InsertRow(OrderByPageNumber(SubSeq(rows, 1, Len(rows) - 1)), rows[Len(rows)])

QueryClassifications == OrderByPageNumber(page_classifications)

\* chunks_by_page of the handlers, reduced to the content length of each page
ChunksByPage(chunks) ==
  [p \in {chunks[i].page_number : i \in 1..Len(chunks)} |->
     SumSeq([i \in 1..Len(chunks) |-> IF chunks[i].page_number = p THEN chunks[i].chars ELSE 0])]

\* parse_result.page_count or 1
PageCountOr1(page_count) == IF page_count = 0 THEN 1 ELSE page_count

\* save_classifications: one row per returned classification, in order; a
\* classification without page_type raises KeyError after the rows before it
\* were flushed
save_classifications(classifications, first_id) ==
  LET bad == FirstIndex([n \in 1..Len(classifications) |-> classifications[n].page_type = Missing])
      n == IF bad = 0 THEN Len(classifications) ELSE bad - 1
  IN [raised |-> bad # 0,
      rows |-> [i \in 1..n |-> [id |-> first_id + i - 1,
                                 page_number |-> classifications[i].page,
                                 page_type |-> classifications[i].page_type]]]

\* pc_by_page = {pc.page_number: pc for pc in page_classifications}
pc_by_page(pcs, page_num) ==
  LET last == CHOOSE i \in 1..Len(pcs) :
                /\ pcs[i].page_number = page_num
                /\ \A j \in (i + 1)..Len(pcs) : pcs[j].page_number # page_num
  IN pcs[last]

\* the batch loop of a run: batches without applicable checks are skipped,
\* every other batch is one call of run_batch_checks_ai
Skipped == [kind |-> "skipped", msg |-> Missing, text |-> <<>>, usage |-> NoUsage]

TagPageResults(page_results, pcs) ==
  [i \in 1..Len(page_results) |->
     [page_number |-> page_results[i].page_number,
      page_type |-> page_results[i].page_type,
      page_classification_id |-> pc_by_page(pcs, page_results[i].page_number).id,
      results |-> page_results[i].results]]

RECURSIVE RunBatches(_, _, _)
RunBatches(batches, responses, pcs) ==
  IF batches = <<>> THEN [page_results |-> <<>>, usage |-> NoUsage]
  ELSE
    LET applicable_checks == get_checks_for_page_type(Head(batches).page_type)
        rest == RunBatches(Tail(batches), Tail(responses), pcs)
    IN IF applicable_checks = <<>> THEN rest
       ELSE LET batch_result == run_batch_checks_ai(Head(batches), applicable_checks, Head(responses))
            IN [page_results |-> TagPageResults(batch_result.page_results, pcs) \o rest.page_results,
                usage |-> [input_tokens |-> batch_result.usage.input_tokens + rest.usage.input_tokens,
                           output_tokens |-> batch_result.usage.output_tokens + rest.usage.output_tokens]]

\* all_check_results: every verdict tagged with its page
RECURSIVE AllCheckResults(_)
AllCheckResults(all_page_results) ==
  IF all_page_results = <<>> THEN <<>>
  ELSE LET pr == Head(all_page_results)
       IN [k \in 1..Len(pr.results) |->
             [page_number |-> pr.page_number, page_type |-> pr.page_type,
              check_id |-> pr.results[k].check_id, category |-> pr.results[k].category,
              status |-> pr.results[k].status, confidence |-> pr.results[k].confidence,
              notes |-> pr.results[k].notes]]
          \o AllCheckResults(Tail(all_page_results))

\* sum(1 for r in all_check_results if r["status"] == status)
CountStatus(all_check_results, status) ==
  Cardinality({i \in 1..Len(all_check_results) : all_check_results[i].status = status})

Summary(all_check_results) ==
  [total_checks |-> Len(all_check_results),
   passed |-> CountStatus(all_check_results, "pass"),
   failed |-> CountStatus(all_check_results, "fail"),
   needs_review |-> CountStatus(all_check_results, "needs_review"),
   na |-> CountStatus(all_check_results, "na")]

\* None, the id of an object that was not flushed yet
NullId == <<>>

\* generate_uuid, the default of the id columns: a value no other row has
generate_uuid(document_index, row_index) == <<"uuid", document_index, row_index>>

\* the PageCheckResult rows of a run
RECURSIVE PageCheckRows(_)
PageCheckRows(all_page_results) ==
  IF all_page_results = <<>> THEN <<>>
  ELSE LET pr == Head(all_page_results)
       IN [k \in 1..Len(pr.results) |->
             [page_classification_id |-> pr.page_classification_id,
              check_result_id |-> NullId,
              check_id |-> pr.results[k].check_id,
              status |-> pr.results[k].status]]
          \o PageCheckRows(Tail(all_page_results))

\* run_number of a new CheckResult
RunNumber_fixed(run_count) == 1

RunNumber(run_count) == run_count + 1

\* CheckResult(...) as both handlers build it
NewCheckResult(run_count, batch_run_id, pcs, all_page_results, usage) ==
  LET all_check_results == AllCheckResults(all_page_results) IN
    [id |-> NullId,
     run_number |-> RunNumber(run_count),
     batch_run_id |-> batch_run_id,
     completeness_results |-> SelectSeq(all_check_results, LAMBDA v : v.category = "completeness"),
     compliance_results |-> SelectSeq(all_check_results, LAMBDA v : v.category = "compliance"),
     summary |-> Summary(all_check_results),
     page_classifications |-> [i \in 1..Len(pcs) |->
                                 [page |-> pcs[i].page_number, type |-> pcs[i].page_type]],
     input_tokens |-> usage.input_tokens,
     output_tokens |-> usage.output_tokens,
     page_check_results |-> PageCheckRows(all_page_results)]

\* the ids of a CheckResult and of its PageCheckResult rows once they are
\* committed: the CheckResult gets its id when it is flushed, and a row
\* holds the id the CheckResult had when PageCheckResult(...) was called
WithIds(check_result, id, flushed) ==
  [check_result EXCEPT
     !.id = id,
     !.page_check_results = [k \in 1..Len(@) |->
                               [@[k] EXCEPT !.check_result_id = IF flushed THEN id ELSE NullId]]]

(***************************************************************************)
(* Specification of the batch planner alone: any ordered list of page      *)
(* classifications (one row per page) and any page content lengths.        *)
(***************************************************************************)
\* lengths a page's content can have: a page without chunks has none
PageCharVals == {20000, 30000, 50001}

PlannerRows(n) ==
  {[i \in 1..n |-> [id |-> i, page_number |-> i, page_type |-> ty[i]]] : ty \in [1..n -> PageTypes]}

PlannerInputs ==
  UNION {{[kind |-> "create_smart_batches", pcs |-> pcs, chunks_by_page |-> cbp] :
            pcs \in PlannerRows(n),
            cbp \in UNION {[S -> PageCharVals] : S \in SUBSET (1..n)}} : n \in 0..MaxPages}

InitBatches == call \in PlannerInputs /\ ret = None /\ StoreUnused

CreateSmartBatches ==
  /\ call.kind = "create_smart_batches"
  /\ ret = None
  /\ ret' = [kind |-> "batches",
             batches |-> create_smart_batches(call.pcs, call.chunks_by_page, MAX_BATCH_CHARS)]
  /\ UNCHANGED <<call, store>>

NextBatches == CreateSmartBatches

SpecBatches == InitBatches /\ [][NextBatches]_vars

\* sum of the page content lengths of a batch
BatchChars(b, chunks_by_page) ==
  SumSeq([i \in 1..Len(b.pages) |-> page_chars(chunks_by_page, b.pages[i])])

Planned == ret.kind = "batches"

\* C4: every produced batch of more than one page has a summed page content
\* length within MAX_BATCH_CHARS, and a page whose content alone exceeds
\* MAX_BATCH_CHARS is the only page of its batch.
C4_BatchBudget ==
  Planned =>
    \A i \in 1..Len(ret.batches) :
      LET b == ret.batches[i] IN
        /\ Len(b.pages) > 1 => BatchChars(b, call.chunks_by_page) <= MAX_BATCH_CHARS
        /\ \A j \in 1..Len(b.pages) :
             page_chars(call.chunks_by_page, b.pages[j]) > MAX_BATCH_CHARS => Len(b.pages) = 1

\* C29: a produced batch whose summed page content length is within
\* MAX_BATCH_CHARS has a combined_content, page headers and page boundaries
\* included, within MAX_BATCH_CHARS, so that the cut of the prompt at
\* MAX_BATCH_CHARS characters removes nothing of it.
C29_WithinBudgetNotTruncated ==
  Planned =>
    \A i \in 1..Len(ret.batches) :
      BatchChars(ret.batches[i], call.chunks_by_page) <= MAX_BATCH_CHARS =>
        ret.batches[i].combined_len <= MAX_BATCH_CHARS

\* how many times row pc occurs in the batches
Occurrences(batches, pc) ==
  Cardinality({<<i, j>> \in (1..Len(batches)) \X (1..MaxPages + 1) :
                 /\ j <= Len(batches[i].page_classifications)
                 /\ batches[i].page_classifications[j] = pc})

\* C5: every classification is in exactly one batch, whose page_type is the
\* classified type of each of its pages, and no batch is empty.
C5_BatchPartition ==
  Planned =>
    /\ \A k \in 1..Len(call.pcs) : Occurrences(ret.batches, call.pcs[k]) = 1
    /\ \A i \in 1..Len(ret.batches) :
         LET b == ret.batches[i] IN
           /\ b.pages # <<>>
           /\ Len(b.pages) = Len(b.page_classifications)
           /\ \A j \in 1..Len(b.page_classifications) :
                /\ b.page_classifications[j] \in Range(call.pcs)
                /\ b.page_classifications[j].page_type = b.page_type
                /\ b.page_classifications[j].page_number = b.pages[j]

\* a type split over two batches, next to a batch of another type
C5_Witness ==
  /\ Planned
  /\ Len(ret.batches) = 3
  /\ ret.batches[1].page_type = ret.batches[2].page_type
  /\ ret.batches[3].page_type # ret.batches[1].page_type

\* the page types in the order the catalog lists them
PageTypeOrder == <<"cover_sheet", "site_plan", "unknown">>

CatalogRank(page_type) == CHOOSE i \in 1..Len(PageTypeOrder) : PageTypeOrder[i] = page_type

\* C21: the batches come type by type in the catalog's order of the page
\* types, the batches of one type are contiguous, and the pages of one type
\* ascend through its batches; the same input gives the same batches.
C21_BatchOrdering ==
  Planned =>
    /\ \A i, j \in 1..Len(ret.batches) :
         i < j => CatalogRank(ret.batches[i].page_type) <= CatalogRank(ret.batches[j].page_type)
    /\ \A i, j, k \in 1..Len(ret.batches) :
         (i < j /\ j < k /\ ret.batches[i].page_type = ret.batches[k].page_type)
           => ret.batches[j].page_type = ret.batches[i].page_type
    /\ \A i, j \in 1..Len(ret.batches) :
         \A m \in 1..Len(ret.batches[i].pages), n \in 1..Len(ret.batches[j].pages) :
           (ret.batches[i].page_type = ret.batches[j].page_type
            /\ (i < j \/ (i = j /\ m < n)))
             => ret.batches[i].pages[m] < ret.batches[j].pages[n]
    /\ ret.batches = create_smart_batches(call.pcs, call.chunks_by_page, MAX_BATCH_CHARS)

(***************************************************************************)
(* Specification of the check evaluator alone: a batch as the planner      *)
(* builds it, the checks of its page type, and any provider response.      *)
(***************************************************************************)
\* a page number that is in no batch of the model
ForeignPage == MaxPages + MaxEvalPages + 1

\* the rows of a document whose pages all have one type that has checks
UniformRows ==
  UNION {{r \in PlannerRows(n) :
            /\ \A i \in 1..n : r[i].page_type = r[1].page_type
            /\ get_checks_for_page_type(r[1].page_type) # <<>>} : n \in 1..MaxEvalPages}

EvalBatches ==
  UNION {Range(create_smart_batches(pcs, <<>>, MAX_BATCH_CHARS)) : pcs \in UniformRows}

\* what an entry of the answer says about its pair
EntryValues ==
  { [status |-> "pass",         confidence |-> 95,      notes |-> <<"seen">>],
    [status |-> "needs_review", confidence |-> 60,      notes |-> <<"seen">>],
    [status |-> Missing,        confidence |-> MissingNumber, notes |-> MissingNotes] }

EvalEntries(batch, checks) ==
  { [page_number |-> p, check_id |-> c,
     status |-> v.status, confidence |-> v.confidence, notes |-> v.notes] :
      p \in Range(batch.pages) \cup {ForeignPage},
      c \in {checks[k].id : k \in 1..Len(checks)} \cup {"orphan_check"},
      v \in EntryValues }

EvalValues(batch, checks) ==
  { [shape |-> sh, results |-> r] :
      sh \in {"object", "array"}, r \in SeqsUpTo(EvalEntries(batch, checks), MaxEntries) }

EvalCall(b, r) ==
  [kind |-> "run_batch_checks_ai", batch |-> b,
   checks |-> get_checks_for_page_type(b.page_type), resp |-> r]

InitEval ==
  /\ ret = None
  /\ StoreUnused
  /\ \E b \in EvalBatches :
       \/ call = EvalCall(b, RaisedResponse)
       \/ \E v \in EvalValues(b, get_checks_for_page_type(b.page_type)) :
            \E t \in TextForms(v) : call = EvalCall(b, TextResponse(t))

RunBatchChecksAI ==
  /\ call.kind = "run_batch_checks_ai"
  /\ ret = None
  /\ ret' = [kind |-> "batch_result",
             result |-> run_batch_checks_ai(call.batch, call.checks, call.resp)]
  /\ UNCHANGED <<call, store>>

NextEval == RunBatchChecksAI

SpecEval == InitEval /\ [][NextEval]_vars

Evaluated == ret.kind = "batch_result"

\* the entries of the JSON value the answer carries, none if it carries none
AnswerEntries(text) ==
  LET loaded == JsonLoads(ExtractJson(text))
  IN IF loaded.ok THEN loaded.val.results ELSE <<>>

\* the verdicts cover the pairs of the batch: one per page and check, in order
OnePerPair(batch, checks, result) ==
  /\ Len(result.page_results) = Len(batch.pages)
  /\ \A i \in 1..Len(batch.pages) :
       /\ result.page_results[i].page_number = batch.pages[i]
       /\ Len(result.page_results[i].results) = Len(checks)
       /\ \A k \in 1..Len(checks) : result.page_results[i].results[k].check_id = checks[k].id

\* verdict v takes the values entry e gives
Carries(v, e) ==
  /\ e.status # Missing => v.status = e.status
  /\ e.confidence # MissingNumber => v.confidence = e.confidence
  /\ e.notes # MissingNotes => v.notes = e.notes

IsNotEvaluated(v) == v.status = "fail" /\ v.confidence = 0 /\ v.notes = <<"Not evaluated">>

\* C2: when the provider call returns, the output holds exactly one verdict
\* per (page, check) of the batch and no other; a pair the parsed answer
\* mentions carries the answer's values, a pair it does not mention (also
\* when the answer is unparseable) is fail / 0 / "Not evaluated".
C2_Reconciliation ==
  (Evaluated /\ call.resp.kind = "text") =>
    /\ OnePerPair(call.batch, call.checks, ret.result)
    /\ \A i \in 1..Len(call.batch.pages) : \A k \in 1..Len(call.checks) :
         LET v == ret.result.page_results[i].results[k]
             mentions == {e \in Range(AnswerEntries(call.resp.text)) :
                            e.page_number = call.batch.pages[i] /\ e.check_id = call.checks[k].id}
         IN IF mentions = {} THEN IsNotEvaluated(v) ELSE \E e \in mentions : Carries(v, e)


(***************************************************************************)
(* Specification of the page classifier alone: any page count, chunks and  *)
(* provider response.                                                      *)
(***************************************************************************)
ClassifyEntries(page_count) ==
  { [page |-> p, page_type |-> ty, confidence |-> 90, signals |-> <<"SITE PLAN">>, error |-> Missing] :
      p \in (1..(page_count + 1)) \cup {MissingNumber},
      ty \in {"cover_sheet", "site_plan", Missing} }

ClassifyValues(page_count) ==
  { [shape |-> sh, classifications |-> cs] :
      sh \in {"object", "array"}, cs \in SeqsUpTo(ClassifyEntries(page_count), MaxEntries) }

\* the chunk lists of the model: no chunk, or one chunk on page 1
ChunkLists == { <<>>, <<[page_number |-> 1]>> }

ClassifyCall(chunks, n, r) ==
  [kind |-> "classify_pages", chunks |-> chunks, page_count |-> n, resp |-> r]

InitClassify ==
  /\ ret = None
  /\ StoreUnused
  /\ \E n \in 1..MaxClassifyPages : \E chunks \in ChunkLists :
       \/ call = ClassifyCall(chunks, n, RaisedResponse)
       \/ \E v \in ClassifyValues(n) : \E t \in TextForms(v) :
            call = ClassifyCall(chunks, n, TextResponse(t))

ClassifyPages ==
  /\ call.kind = "classify_pages"
  /\ ret = None
  /\ ret' = [kind |-> "classifications",
             result |-> classify_pages(call.chunks, call.page_count, call.resp)]
  /\ UNCHANGED <<call, store>>

NextClassify == ClassifyPages

SpecClassify == InitClassify /\ [][NextClassify]_vars

Classified == ret.kind = "classifications"

\* the entries the answer gives, none if it carries no JSON value
AnswerClassifications(text) ==
  LET loaded == JsonLoads(ExtractJson(text))
  IN IF loaded.ok THEN loaded.val.classifications ELSE <<>>

EntriesOfPage(cs, p) == {i \in 1..Len(cs) : cs[i].page = p}

IsUnknown(c) == c.page_type = "unknown" /\ c.confidence = 0 /\ c.signals = <<>>

\* C8: classify_pages returns exactly one classification for each page of
\* [1, page_count] and none for another page number; a page the answer
\* omits is "unknown" with confidence 0 and no signals.
C8_ClassifierCoverage ==
  Classified =>
    LET cs == ret.result.classifications IN
      /\ \A p \in 1..call.page_count : Cardinality(EntriesOfPage(cs, p)) = 1
      /\ \A i \in 1..Len(cs) : cs[i].page \in 1..call.page_count
      /\ call.resp.kind = "text" =>
           \A p \in 1..call.page_count :
             EntriesOfPage(AnswerClassifications(call.resp.text), p) = {} =>
               \A i \in EntriesOfPage(cs, p) : IsUnknown(cs[i])

\* the answer is not the expected structure: no JSON value, not an object,
\* or an entry without a page
Unparseable(text) ==
  LET loaded == JsonLoads(ExtractJson(text)) IN
    \/ ~loaded.ok
    \/ loaded.val.shape # "object"
    \/ \E i \in 1..Len(loaded.val.classifications) :
         loaded.val.classifications[i].page = MissingNumber

ClassifierFailed ==
  Classified /\ (call.resp.kind = "raise" \/ Unparseable(call.resp.text))

Init ==
  /\ call = None
  /\ ret = None
  /\ StoreInit

AddUsage(a, b) ==
  [input_tokens |-> a.input_tokens + b.input_tokens,
   output_tokens |-> a.output_tokens + b.output_tokens]

\* the workers are interchangeable: the second one serves only an operation
\* that starts while the first one is busy
Free(r) == r = "r1" \/ runner["r1"].op # "idle"

\* the request handlers are coroutines of one event loop and never suspend
\* (the provider and database calls block), so a request starts when no
\* other request is in progress; the job runs on a thread of its own
LoopFree(r) == \A q \in Runners \ {r} : runner[q].op \notin {"v3", "classify"}

\* run_document_checks_v3, up to the decision to classify (lines 363-381)
V3Begin(r, force) ==
  /\ runner[r].op = "idle"
  /\ Free(r)
  /\ LoopFree(r)
  /\ ops < MaxOps
  /\ ops' = ops + 1
  /\ LET pcs == QueryClassifications IN
       runner' = [runner EXCEPT ![r] =
         [Idle EXCEPT !.op = "v3", !.force = force, !.pcs = pcs,
                      !.pc = IF pcs = <<>> \/ force
                             THEN (IF pcs # <<>> THEN "delete" ELSE "classify")
                             ELSE "evaluate"]]
  /\ UNCHANGED <<harness, orchestrators, document, provider, page_classifications, check_results, run_log,
                 settings, next_id>>

\* the classify-pages endpoint, up to the decision to classify; it answers
\* 400 when the pages are classified and force_reclassify is not set
ClassifyBegin(r, force) ==
  /\ runner[r].op = "idle"
  /\ Free(r)
  /\ LoopFree(r)
  /\ ops < MaxOps
  /\ ops' = ops + 1
  /\ LET existing == page_classifications # <<>> IN
       IF existing /\ ~force
       THEN UNCHANGED runner
       ELSE runner' = [runner EXCEPT ![r] =
              [Idle EXCEPT !.op = "classify", !.force = force,
                           !.pc = IF existing THEN "delete" ELSE "classify"]]
  /\ UNCHANGED <<harness, orchestrators, document, provider, page_classifications, check_results, run_log,
                 settings, next_id>>

\* process_batch_checks, the body of the loop for the document, up to the
\* decision to classify; the document is skipped when it has a CheckResult
\* and force_rerun is not set
JobBegin(r, force_rerun) ==
  /\ runner[r].op = "idle"
  /\ Free(r)
  /\ ops < MaxOps
  /\ ops' = ops + 1
  /\ IF ~force_rerun /\ check_results # <<>>
     THEN UNCHANGED runner
     ELSE LET pcs == QueryClassifications IN
            runner' = [runner EXCEPT ![r] =
              [Idle EXCEPT !.op = "job", !.pcs = pcs,
                           !.pc = IF pcs = <<>> THEN "classify" ELSE "evaluate"]]
  /\ UNCHANGED <<harness, orchestrators, document, provider, page_classifications, check_results, run_log,
                 settings, next_id>>

\* "Delete existing classifications if re-classifying": delete and commit
DeleteClassifications(r) ==
  /\ runner[r].pc = "delete"
  /\ page_classifications' = <<>>
  /\ runner' = [runner EXCEPT ![r].pc = "classify"]
  /\ UNCHANGED <<harness, orchestrators, document, provider, check_results, run_log, settings, next_id, ops>>

\* classify_pages followed by save_classifications.  A KeyError of
\* save_classifications ends a request with nothing committed; in the job
\* the handler of the document commits the session, flushed rows included.
ClassifyAndSave(r) ==
  /\ runner[r].pc = "classify"
  /\ LET page_count == PageCountOr1(document.page_count)
         answer == classify_pages(document.chunks, page_count,
                                  ClassifyResponse(provider.classify, page_count))
         saved == save_classifications(answer.classifications, next_id)
     IN /\ next_id' = next_id + Len(saved.rows)
        /\ IF saved.raised
           THEN /\ page_classifications' =
                     IF runner[r].op = "job" THEN page_classifications \o saved.rows
                     ELSE page_classifications
                /\ runner' = [runner EXCEPT ![r] = Idle]
           ELSE /\ page_classifications' = page_classifications \o saved.rows
                /\ runner' = [runner EXCEPT ![r] =
                     IF runner[r].op = "classify" THEN Idle
                     ELSE [runner[r] EXCEPT !.pc = "evaluate", !.classified = TRUE]]
  /\ UNCHANGED <<harness, orchestrators, document, provider, check_results, run_log, settings, ops>>

\* the classifications a run works on (re-fetched after classifying), the
\* batches, and the batch loop
Evaluate(r) ==
  /\ runner[r].pc = "evaluate"
  /\ LET pcs == IF runner[r].classified THEN QueryClassifications ELSE runner[r].pcs
         batches == create_smart_batches(pcs, ChunksByPage(document.chunks), MAX_BATCH_CHARS)
         responses == [k \in 1..Len(batches) |->
                         LET checks == get_checks_for_page_type(batches[k].page_type)
                         IN IF checks = <<>> THEN Skipped
                            ELSE EvalResponse(provider.evaluate[batches[k].page_type],
                                              batches[k], checks)]
         run == RunBatches(batches, responses, pcs)
     IN runner' = [runner EXCEPT ![r] =
          [runner[r] EXCEPT !.pcs = pcs, !.batches = batches, !.responses = responses,
                            !.results = run.page_results, !.usage = run.usage,
                            !.settings_seen = IF runner[r].op = "v3" THEN settings ELSE NoUsage,
                            !.run_count = IF runner[r].op = "v3" THEN Len(check_results) ELSE 0,
                            !.pc = IF runner[r].op = "v3" THEN "persist" ELSE "count"]]
  /\ UNCHANGED <<harness, orchestrators, document, provider, page_classifications, check_results, run_log,
                 settings, next_id, ops>>

\* process_batch_checks: run_count is read after the batches were evaluated
JobCount(r) ==
  /\ runner[r].pc = "count"
  /\ runner' = [runner EXCEPT ![r].run_count = Len(check_results), ![r].pc = "persist"]
  /\ UNCHANGED <<harness, orchestrators, document, provider, page_classifications, check_results, run_log,
                 settings, next_id, ops>>

\* the new record replaces the history of the document
AddCheckResult_replaces(history, check_result) == <<check_result>>

\* db.add(check_result): the record joins the CheckResults of the document
AddCheckResult(history, check_result) == Append(history, check_result)

\* the CheckResult and its PageCheckResult rows are added and committed; the
\* request also adds the usage to the totals it read from ProjectSettings
Persist(r) ==
  /\ runner[r].pc = "persist"
  /\ check_results' = AddCheckResult(check_results,
        WithIds(NewCheckResult(runner[r].run_count,
                               IF runner[r].op = "job" THEN "batch_run" ELSE Missing,
                               runner[r].pcs, runner[r].results, runner[r].usage),
                generate_uuid(1, Len(check_results) + 1), runner[r].op = "v3"))
  /\ run_log' = Append(run_log, [batches |-> runner[r].batches, responses |-> runner[r].responses])
  /\ settings' = IF runner[r].op = "v3"
                 THEN AddUsage(runner[r].settings_seen, runner[r].usage)
                 ELSE settings
  /\ runner' = [runner EXCEPT ![r] = Idle]
  /\ UNCHANGED <<harness, orchestrators, document, provider, page_classifications, next_id, ops>>

Step(r) ==
  \/ \E force \in BOOLEAN : V3Begin(r, force)
  \/ \E force \in BOOLEAN : ClassifyBegin(r, force)
  \/ \E force_rerun \in BOOLEAN : JobBegin(r, force_rerun)
  \/ DeleteClassifications(r)
  \/ ClassifyAndSave(r)
  \/ Evaluate(r)
  \/ JobCount(r)
  \/ Persist(r)

\* a request and jobs overlap
Next == \E r \in Runners : Step(r)

Spec == Init /\ [][Next]_vars

\* one operation at a time
NextSeq == Step("r1")

SpecSeq == Init /\ [][NextSeq]_vars


\* the verdicts a CheckResult stores
Verdicts(cr) == cr.completeness_results \o cr.compliance_results

VerdictsOf(cr, page, check_id) ==
  {n \in 1..Len(Verdicts(cr)) :
     Verdicts(cr)[n].page_number = page /\ Verdicts(cr)[n].check_id = check_id}

\* C1: every persisted CheckResult holds, for every page of the parse
\* result classified with a type that has applicable checks, exactly one
\* verdict per applicable check, whatever classifier and evaluator returned.
C1_Completeness ==
  \A i \in 1..Len(check_results) :
    LET cr == check_results[i] IN
      \A k \in 1..Len(cr.page_classifications) :
        LET pc == cr.page_classifications[k] IN
          pc.page \in 1..document.page_count =>
            \A c \in Range(get_checks_for_page_type(pc.type)) :
              Cardinality(VerdictsOf(cr, pc.page, c.id)) = 1

\* the verdicts a CheckResult stores for a page of a batch and a check
BatchVerdicts(cr, batch, page, check) ==
  {v \in Range(Verdicts(cr)) :
     v.page_number = page /\ v.page_type = batch.page_type /\ v.check_id = check.id}

IsErrorVerdict(v, msg) ==
  v.status = "fail" /\ v.confidence = 0 /\ v.notes = <<"Error: ", msg>>

\* what the provider reported for the batches whose call returned
ReportedUsage(log) ==
  [input_tokens |-> SumSeq([k \in 1..Len(log.responses) |->
      IF log.responses[k].kind = "text" THEN log.responses[k].usage.input_tokens ELSE 0]),
   output_tokens |-> SumSeq([k \in 1..Len(log.responses) |->
      IF log.responses[k].kind = "text" THEN log.responses[k].usage.output_tokens ELSE 0])]

\* C3: a run in which the provider raised for a batch still persists its
\* CheckResult; every (page, check) of that batch has a verdict fail / 0 /
\* "Error: " + message and the batch adds no usage, while every other batch
\* keeps the verdicts its own response gives and the usage it reported.
C3_ProviderFailure ==
  /\ Len(run_log) = Len(check_results)
  /\ \A i \in 1..Len(check_results) :
       LET cr == check_results[i]
           log == run_log[i]
       IN /\ cr.input_tokens = ReportedUsage(log).input_tokens
          /\ cr.output_tokens = ReportedUsage(log).output_tokens
          /\ \A k \in 1..Len(log.batches) :
               LET batch == log.batches[k]
                   resp == log.responses[k]
               IN \A page \in Range(batch.pages) :
                    \A check \in Range(get_checks_for_page_type(batch.page_type)) :
                      LET vs == BatchVerdicts(cr, batch, page, check)
                          mentions == {e \in Range(AnswerEntries(resp.text)) :
                                         e.page_number = page /\ e.check_id = check.id}
                      IN /\ vs # {}
                         /\ \A v \in vs :
                              IF resp.kind = "raise" THEN IsErrorVerdict(v, resp.msg)
                              ELSE IF mentions = {} THEN IsNotEvaluated(v)
                              ELSE \E e \in mentions : Carries(v, e)

\* a persisted run with a batch whose call raised and a batch whose call returned
C3_Witness ==
  \E i \in 1..Len(check_results) :
    /\ \E k \in 1..Len(run_log[i].responses) : run_log[i].responses[k].kind = "raise"
    /\ \E k \in 1..Len(run_log[i].responses) : run_log[i].responses[k].kind = "text"
    /\ check_results[i].input_tokens > 0

\* C6: when runs of a document do not overlap, the run_numbers of its
\* CheckResults in creation order are 1, 2, ... without gap or repeat,
\* whichever of the two handlers made each run.
C6_RunNumbering ==
  \A i \in 1..Len(check_results) : check_results[i].run_number = i

\* a run of the request handler followed by a run of the job, or the reverse
C6_Witness ==
  /\ Len(check_results) >= 2
  /\ check_results[1].batch_run_id # check_results[2].batch_run_id

\* C7: the CheckResults of the document never share a run_number, also when
\* runs overlap.
C7_RunNumberSerialized ==
  \A i, j \in 1..Len(check_results) :
    i # j => check_results[i].run_number # check_results[j].run_number

\* C10: when a forced reclassification (endpoint or request with
\* force_reclassify) ends its classification, the parse result has exactly
\* page_count PageClassification rows.
C10_Reclassification ==
  [][\A r \in Runners :
       (runner[r].pc = "classify" /\ runner[r].force /\ runner'[r].pc # "classify")
         => Len(page_classifications') = document.page_count]_vars


(***************************************************************************)
(* Check batch job: run_checks_all_documents and process_batch_checks over *)
(* the documents of a project.  Every parsed document has the content of   *)
(* `document`; the provider answers as `provider` says.  A commit can be   *)
(* refused by the database where the job starts, where a document's run   *)
(* is committed, where a document's failure is recorded and where the job  *)
(* is finalized.                                                           *)
(***************************************************************************)
\* a document without a completed parse result and one with
UnparsedDocument == [parsed |-> FALSE, page_classifications |-> <<>>, check_results |-> <<>>]

ParsedDocument == [parsed |-> TRUE, page_classifications |-> <<>>, check_results |-> <<>>]

\* classifier and evaluator answers used for the documents of a job
JobProviders ==
  {pr \in Providers : /\ pr.classify \in {"two_types", "no_page_type"}
                      /\ pr.evaluate.site_plan # "raise"}

InitJob ==
  /\ call = None
  /\ ret = None
  /\ document = [page_count |-> DocPages, chunks |-> DocChunks]
  /\ provider \in JobProviders
  /\ page_classifications = <<>>
  /\ check_results = <<>>
  /\ run_log = <<>>
  /\ settings = NoUsage
  /\ next_id = 1
  /\ ops = 0
  /\ runner = [r \in Runners |-> Idle]
  /\ batch_run = None
  /\ job = None
  /\ project \in {[documents |-> ds, commit_failures |-> 0] :
                    ds \in [1..JobDocs -> {UnparsedDocument, ParsedDocument}]}
  /\ batch_job = None
  /\ tasks = <<>>
  /\ semaphore = None
  /\ loop = <<>>

job_frame == <<harness, document, provider, page_classifications, check_results, run_log,
               ops, runner, batch_job, tasks, semaphore, loop>>

\* BatchCheckRun(status="pending", total_documents=len(documents), ...)
NewBatchCheckRun(documents, force_rerun) ==
  [status |-> "pending", total_documents |-> Len(documents),
   completed_documents |-> 0, failed_documents |-> 0, skipped_documents |-> 0,
   force_rerun |-> force_rerun,
   total_passed |-> 0, total_failed |-> 0, total_needs_review |-> 0,
   total_input_tokens |-> 0, total_output_tokens |-> 0]

\* POST /projects/{project_id}/run-all
RunChecksAllDocuments(force_rerun, skip_unparsed) ==
  /\ batch_run = None
  /\ Len(project.documents) > 0
  /\ batch_run' = NewBatchCheckRun(project.documents, force_rerun)
  /\ job' = [pc |-> "queued", force_rerun |-> force_rerun, skip_unparsed |-> skip_unparsed]
  /\ UNCHANGED <<job_frame, project, settings, next_id>>

\* a document is uploaded to the project between the request and the start
\* of its background task
UploadDocument ==
  /\ batch_run # None
  /\ batch_run.status = "pending"
  /\ Len(project.documents) <= JobDocs
  /\ project' = [project EXCEPT !.documents = Append(@, UnparsedDocument)]
  /\ UNCHANGED <<job_frame, batch_run, job, settings, next_id>>

\* the outcomes a commit can have now
CommitOutcomes ==
  {TRUE} \cup (IF project.commit_failures < MaxCommitFailures THEN {FALSE} ELSE {})

\* the locals of process_batch_checks when its loop starts
JobLocals(pc) ==
  [pc |-> pc, force_rerun |-> job.force_rerun, skip_unparsed |-> job.skip_unparsed,
   documents |-> Len(project.documents), idx |-> 1,
   total_passed |-> 0, total_failed |-> 0, total_needs_review |-> 0,
   total_input_tokens |-> 0, total_output_tokens |-> 0,
   provider_calls |-> 0, flushed |-> <<>>, result |-> None, outcomes |-> <<>>,
   needs_rollback |-> FALSE]

\* process_batch_checks up to the loop over the documents; a refused commit
\* of the status leaves the function through its outer except
ProcessBatchChecksStart ==
  /\ job # None
  /\ job.pc = "queued"
  /\ \E committed \in CommitOutcomes :
       IF committed
       THEN /\ batch_run' = [batch_run EXCEPT !.status = "processing"]
            /\ job' = JobLocals(IF Len(project.documents) = 0 THEN "finalize" ELSE "doc")
            /\ UNCHANGED project
       ELSE /\ project' = [project EXCEPT !.commit_failures = @ + 1]
            /\ job' = JobLocals("job_except")
            /\ UNCHANGED batch_run
  /\ UNCHANGED <<job_frame, settings, next_id>>

InLoop(pc) == job # None /\ job.pc = pc

\* the loop goes on with the next document; outcomes records how the
\* document was counted and the provider calls made for it
NextDocument(j, outcome) ==
  [j EXCEPT !.idx = j.idx + 1,
            !.pc = IF j.idx + 1 > j.documents THEN "finalize" ELSE "doc",
            !.provider_calls = 0, !.flushed = <<>>, !.result = None,
            !.outcomes = Append(@, [document |-> j.idx, outcome |-> outcome,
                                    provider_calls |-> j.provider_calls])]

Counted(run, outcome) ==
  CASE outcome = "completed" -> [run EXCEPT !.completed_documents = @ + 1]
    [] outcome = "failed" -> [run EXCEPT !.failed_documents = @ + 1]
    [] outcome = "skipped" -> [run EXCEPT !.skipped_documents = @ + 1]

\* the head of the loop body: the parse result and, unless force_rerun, an
\* existing CheckResult decide whether the document is run
JobDocBegin ==
  /\ InLoop("doc")
  /\ LET doc == project.documents[job.idx]
         outcome == IF ~doc.parsed THEN (IF job.skip_unparsed THEN "skipped" ELSE "failed")
                    ELSE IF ~job.force_rerun /\ doc.check_results # <<>> THEN "skipped"
                    ELSE "run"
     IN IF outcome = "run"
        THEN /\ job' = [job EXCEPT !.pc = "run"]
             /\ UNCHANGED batch_run
        ELSE /\ job' = NextDocument(job, outcome)
             /\ batch_run' = Counted(batch_run, outcome)
  /\ UNCHANGED <<job_frame, project, settings, next_id>>

\* "Get or create page classifications" without force_reclassify: the rows
\* of the parse result, or those classify_pages and save_classifications
\* make; a KeyError of save_classifications raises with the rows flushed so far
Stored(saved, classifier_calls) ==
  [raised |-> saved.raised, rows |-> saved.rows, new_ids |-> Len(saved.rows),
   provider_calls |-> classifier_calls]

Classify(answer, first_id) ==
  Stored(save_classifications(answer.classifications, first_id), Len(answer.provider_calls))

GetOrCreateClassifications(doc, first_id) ==
  IF doc.page_classifications # <<>>
  THEN [raised |-> FALSE, rows |-> doc.page_classifications, new_ids |-> 0, provider_calls |-> 0]
  ELSE Classify(classify_pages(document.chunks, PageCountOr1(document.page_count),
                               ClassifyResponse(provider.classify,
                                                PageCountOr1(document.page_count))),
                first_id)

\* the answers of the provider to the batches of a run
BatchResponses(batches) ==
  [k \in 1..Len(batches) |->
     IF get_checks_for_page_type(batches[k].page_type) = <<>> THEN Skipped
     ELSE EvalResponse(provider.evaluate[batches[k].page_type], batches[k],
                       get_checks_for_page_type(batches[k].page_type))]

\* the batches of the classified pages and the batch loop
RunOutcome(c, pcs, batches, responses, run) ==
  [raised |-> FALSE, rows |-> c.rows, new_ids |-> c.new_ids,
   provider_calls |-> c.provider_calls
                      + Cardinality({k \in 1..Len(batches) : responses[k] # Skipped}),
   pcs |-> pcs, page_results |-> run.page_results, usage |-> run.usage]

EvaluateBatches(c, pcs, batches, responses) ==
  RunOutcome(c, pcs, batches, responses, RunBatches(batches, responses, pcs))

EvaluatePages(c, pcs, batches) == EvaluateBatches(c, pcs, batches, BatchResponses(batches))

\* one document's run as both handlers do it
RunClassified(c) ==
  IF c.raised
  THEN [raised |-> TRUE, rows |-> c.rows, new_ids |-> c.new_ids,
        provider_calls |-> c.provider_calls,
        pcs |-> <<>>, page_results |-> <<>>, usage |-> NoUsage]
  ELSE EvaluatePages(c, OrderByPageNumber(c.rows),
                     create_smart_batches(OrderByPageNumber(c.rows),
                                          ChunksByPage(document.chunks), MAX_BATCH_CHARS))

DocumentRun(doc, first_id) == RunClassified(GetOrCreateClassifications(doc, first_id))

\* the answer of the classifier for the document of the job
ClassifierAnswer ==
  classify_pages(document.chunks, PageCountOr1(document.page_count),
                 ClassifyResponse(provider.classify, PageCountOr1(document.page_count)))

\* the outcomes of the first db.flush() of save_classifications: there is
\* one when the document has no classifications yet and the classifier
\* returned an entry
FlushOutcomes(doc) ==
  {TRUE} \cup (IF /\ doc.page_classifications = <<>>
                  /\ ClassifierAnswer.classifications # <<>>
                  /\ project.commit_failures < MaxCommitFailures
               THEN {FALSE} ELSE {})

\* the run of the document in the loop body; when the database refuses a
\* flush of save_classifications the session stays inactive: each later
\* commit of it raises until a rollback, which the job never does
JobDocRun ==
  /\ InLoop("run")
  /\ \E run \in {DocumentRun(project.documents[job.idx], next_id)} :
     \E flushed \in FlushOutcomes(project.documents[job.idx]) :
        IF ~flushed
        THEN /\ job' = [job EXCEPT !.pc = "except", !.needs_rollback = TRUE,
                                   !.provider_calls = Len(ClassifierAnswer.provider_calls)]
             /\ project' = [project EXCEPT !.commit_failures = @ + 1]
             /\ UNCHANGED next_id
        ELSE IF run.raised
        THEN /\ job' = [job EXCEPT !.pc = "except", !.flushed = run.rows,
                                   !.provider_calls = run.provider_calls]
             /\ next_id' = next_id + run.new_ids
             /\ UNCHANGED project
        ELSE /\ job' = [job EXCEPT !.pc = "save", !.provider_calls = run.provider_calls,
                          !.result = [pcs |-> run.pcs, page_results |-> run.page_results,
                                      usage |-> run.usage]]
             /\ next_id' = next_id + run.new_ids
             /\ project' = [project EXCEPT !.documents[job.idx].page_classifications = run.rows]
  /\ UNCHANGED <<job_frame, batch_run, settings>>

\* what a session keeps of its pending rows when its commit is refused
Rollback_keeps(pending) == pending

Rollback(pending) == <<>>

\* "Update totals": the local totals of the job
AddTotals(j, check_result) ==
  [j EXCEPT !.total_passed = @ + check_result.summary.passed,
            !.total_failed = @ + check_result.summary.failed,
            !.total_needs_review = @ + check_result.summary.needs_review,
            !.total_input_tokens = @ + check_result.input_tokens,
            !.total_output_tokens = @ + check_result.output_tokens]

\* "Save result" to the commit of the document: the job's totals are added
\* up before the commit; a refused commit rolls the session back and raises
JobDocSave ==
  /\ InLoop("save")
  /\ \E check_result \in
        {WithIds(NewCheckResult(Len(project.documents[job.idx].check_results),
                                "batch_run", job.result.pcs,
                                job.result.page_results, job.result.usage),
                 generate_uuid(job.idx, Len(project.documents[job.idx].check_results) + 1),
                 FALSE)} :
     \E added \in {AddTotals(job, check_result)} :
        \E committed \in CommitOutcomes :
          IF committed
          THEN /\ project' = [project EXCEPT
                                !.documents[job.idx].check_results = Append(@, check_result)]
               /\ batch_run' = Counted(batch_run, "completed")
               /\ job' = NextDocument(added, "completed")
          ELSE /\ project' = [project EXCEPT
                                !.commit_failures = @ + 1,
                                !.documents[job.idx].check_results = @ \o Rollback(<<check_result>>)]
               /\ job' = [added EXCEPT !.pc = "except"]
               /\ UNCHANGED batch_run
  /\ UNCHANGED <<job_frame, settings, next_id>>

\* except Exception of the document: failed_documents += 1 and commit, which
\* also commits what the session had flushed; if this commit is refused the
\* exception leaves the loop
JobDocExcept ==
  /\ InLoop("except")
  /\ \E committed \in (IF job.needs_rollback THEN {FALSE} ELSE CommitOutcomes) :
       IF job.needs_rollback
       THEN /\ job' = [job EXCEPT !.pc = "job_except"]
            /\ UNCHANGED <<project, batch_run>>
       ELSE IF committed
       THEN /\ project' = [project EXCEPT
                             !.documents[job.idx].page_classifications = @ \o job.flushed]
            /\ batch_run' = Counted(batch_run, "failed")
            /\ job' = NextDocument(job, "failed")
       ELSE /\ project' = [project EXCEPT !.commit_failures = @ + 1]
            /\ job' = [job EXCEPT !.pc = "job_except"]
            /\ UNCHANGED batch_run
  /\ UNCHANGED <<job_frame, settings, next_id>>

\* "Finalize batch run" and "Update project settings usage", one commit
JobFinalize ==
  /\ InLoop("finalize")
  /\ \E committed \in CommitOutcomes :
       IF committed
       THEN /\ batch_run' = [batch_run EXCEPT
                               !.status = "completed",
                               !.total_passed = job.total_passed,
                               !.total_failed = job.total_failed,
                               !.total_needs_review = job.total_needs_review,
                               !.total_input_tokens = job.total_input_tokens,
                               !.total_output_tokens = job.total_output_tokens]
            /\ settings' = AddUsage(settings, [input_tokens |-> job.total_input_tokens,
                                               output_tokens |-> job.total_output_tokens])
            /\ job' = [job EXCEPT !.pc = "done"]
            /\ UNCHANGED project
       ELSE /\ project' = [project EXCEPT !.commit_failures = @ + 1]
            /\ job' = [job EXCEPT !.pc = "job_except"]
            /\ UNCHANGED <<batch_run, settings>>
  /\ UNCHANGED <<job_frame, next_id>>

\* the outer except: batch_run.status = "failed" and a commit; when that
\* commit raises the exception leaves the task and the row keeps its status
JobFailed ==
  /\ InLoop("job_except")
  /\ \E committed \in (IF job.needs_rollback THEN {FALSE} ELSE CommitOutcomes) :
       IF committed
       THEN /\ batch_run' = [batch_run EXCEPT !.status = "failed"]
            /\ UNCHANGED project
       ELSE /\ project' = [project EXCEPT
                             !.commit_failures = IF job.needs_rollback THEN @ ELSE @ + 1]
            /\ UNCHANGED batch_run
  /\ job' = [job EXCEPT !.pc = "done"]
  /\ UNCHANGED <<job_frame, settings, next_id>>

\* POST /documents/{id}/run-v3 for a document of the project while no job
\* runs, as one step; it ends with an error and nothing committed when the
\* document is not parsed, save_classifications raises or the commit is refused
RunDocumentChecksV3(d) ==
  /\ batch_run = None \/ (job # None /\ job.pc = "done")
  /\ d \in 1..Len(project.documents)
  /\ project.documents[d].parsed
  /\ \A i \in 1..Len(project.documents[d].check_results) :
       project.documents[d].check_results[i].batch_run_id # Missing
  /\ \E run \in {DocumentRun(project.documents[d], next_id)} :
     \E check_result \in
        {WithIds(NewCheckResult(Len(project.documents[d].check_results), Missing,
                                run.pcs, run.page_results, run.usage),
                 generate_uuid(d, Len(project.documents[d].check_results) + 1), TRUE)} :
        /\ next_id' = IF run.raised THEN next_id ELSE next_id + run.new_ids
        /\ IF run.raised
           THEN UNCHANGED <<project, settings>>
           ELSE \E committed \in CommitOutcomes :
                  IF committed
                  THEN /\ project' = [project EXCEPT
                                        !.documents[d].page_classifications = run.rows,
                                        !.documents[d].check_results = Append(@, check_result)]
                       /\ settings' = AddUsage(settings, run.usage)
                  ELSE /\ project' = [project EXCEPT
                                        !.commit_failures = @ + 1,
                                        !.documents[d].page_classifications = run.rows,
                                        !.documents[d].check_results =
                                            @ \o Rollback(<<check_result>>)]
                       /\ UNCHANGED settings
  /\ UNCHANGED <<job_frame, batch_run, job>>

NextJob ==
  \/ \E d \in 1..(JobDocs + 1) : RunDocumentChecksV3(d)
  \/ \E force_rerun \in BOOLEAN, skip_unparsed \in BOOLEAN :
       RunChecksAllDocuments(force_rerun, skip_unparsed)
  \/ UploadDocument
  \/ ProcessBatchChecksStart
  \/ JobDocBegin
  \/ JobDocRun
  \/ JobDocSave
  \/ JobDocExcept
  \/ JobFinalize
  \/ JobFailed

SpecJob == InitJob /\ [][NextJob]_vars

\* the steps of the background task process_batch_checks around the run of
\* a document
JobStep ==
  \/ ProcessBatchChecksStart
  \/ JobDocBegin
  \/ JobDocSave
  \/ JobDocExcept
  \/ JobFinalize
  \/ JobFailed

\* the task is a synchronous function on a worker thread: when it has a next
\* statement it executes it, and the run of a document, provider calls
\* included, returns or raises
SpecJobFair == SpecJob /\ WF_vars(JobStep) /\ []<>~InLoop("run")


(***************************************************************************)
(* Properties of the check batch job                                       *)
(***************************************************************************)
Terminal == {"completed", "completed_with_errors", "failed", "cancelled"}

Started == batch_run # None /\ job # None /\ job.pc # "queued"

CountedDocuments ==
  batch_run.completed_documents + batch_run.failed_documents + batch_run.skipped_documents

OutcomeCount(outcome) ==
  Cardinality({i \in 1..Len(job.outcomes) : job.outcomes[i].outcome = outcome})

\* C11: every document the job has handled is counted in exactly one of
\* completed_documents, failed_documents and skipped_documents; the three
\* never add up to more than total_documents, and they add up to
\* total_documents once the BatchCheckRun has a terminal status.
C11_Accounting ==
  batch_run # None =>
    /\ CountedDocuments <= batch_run.total_documents
    /\ batch_run.status \in Terminal => CountedDocuments = batch_run.total_documents
    /\ Started =>
         /\ batch_run.completed_documents = OutcomeCount("completed")
         /\ batch_run.failed_documents = OutcomeCount("failed")
         /\ batch_run.skipped_documents = OutcomeCount("skipped")
         /\ \A i \in 1..Len(job.outcomes) : job.outcomes[i].document = i

\* C12: a document is counted skipped, with no provider call and no
\* CheckResult of the job, when it has no completed parse result or when it
\* has a CheckResult and force_rerun is false; failed only when it has a
\* parse result; completed when the CheckResult of its run is persisted.
C12_Outcomes ==
  Started =>
    \A i \in 1..Len(job.outcomes) :
      LET o == job.outcomes[i]
          doc == project.documents[o.document]
          of_job == {k \in 1..Len(doc.check_results) :
                       doc.check_results[k].batch_run_id = "batch_run"}
      IN /\ ~doc.parsed => o.outcome = "skipped"
         /\ o.outcome = "skipped" => o.provider_calls = 0 /\ of_job = {}
         /\ o.outcome = "failed" => doc.parsed
         /\ o.outcome = "completed" => Cardinality(of_job) = 1

\* C13: a job that ends without a job-level error has status
\* completed_with_errors when failed_documents >= 1 and completed only when
\* failed_documents = 0; status failed needs an error outside the handling
\* of a single document's run.
C13_TerminalStatus ==
  (batch_run # None /\ batch_run.status \in Terminal) =>
    /\ batch_run.status = "completed" => batch_run.failed_documents = 0
    /\ batch_run.status = "completed_with_errors" => batch_run.failed_documents >= 1
    /\ batch_run.status = "failed" => project.commit_failures > 0

\* the CheckResults of document d made by the job
OfJob(d) ==
  {k \in 1..Len(project.documents[d].check_results) :
     project.documents[d].check_results[k].batch_run_id = "batch_run"}

\* C14: a run attempt commits one CheckResult with all of its
\* PageCheckResult rows or nothing: every committed CheckResult has one row
\* per verdict, the run_numbers of a document are 1, 2, ... without a gap,
\* a document the job counted failed or is failing has no CheckResult of
\* the job, and a document it counted completed has exactly one.
C14_NoHalfWrittenRun ==
  /\ \A d \in 1..Len(project.documents) :
       \A k \in 1..Len(project.documents[d].check_results) :
         LET cr == project.documents[d].check_results[k]
         IN /\ cr.run_number = k
            /\ Len(cr.page_check_results)
                 = Len(cr.completeness_results) + Len(cr.compliance_results)
            /\ cr.summary.total_checks = Len(cr.page_check_results)
  /\ Started =>
       /\ \A i \in 1..Len(job.outcomes) :
            Cardinality(OfJob(job.outcomes[i].document))
              = IF job.outcomes[i].outcome = "completed" THEN 1 ELSE 0
       /\ \A d \in (Len(job.outcomes) + 1)..Len(project.documents) : OfJob(d) = {}

\* a commit of a document's CheckResult was refused, the document was
\* counted failed, and another document of the job was completed
C14_Witness ==
  /\ Started
  /\ job.pc = "done"
  /\ project.commit_failures > 0
  /\ \E i, j \in 1..Len(job.outcomes) :
       /\ job.outcomes[i].outcome = "failed"
       /\ project.documents[i].parsed
       /\ job.outcomes[i].provider_calls > 0
       /\ job.outcomes[j].outcome = "completed"

RECURSIVE JobCheckResults(_)
JobCheckResults(d) ==
  IF d = 0 THEN <<>>
  ELSE JobCheckResults(d - 1)
       \o SelectSeq(project.documents[d].check_results,
                    LAMBDA cr : cr.batch_run_id = "batch_run")

RECURSIVE ProjectCheckResults(_)
ProjectCheckResults(d) ==
  IF d = 0 THEN <<>>
  ELSE ProjectCheckResults(d - 1) \o project.documents[d].check_results

\* C19: when no run is under way, the usage totals of the project are the
\* sums of the token usage of the committed CheckResults of its documents,
\* whatever single-document runs and check batch jobs made them and however
\* the job ended.
C19_ProjectUsage ==
  (batch_run = None \/ (job # None /\ job.pc = "done")) =>
    LET results == ProjectCheckResults(Len(project.documents))
    IN /\ settings.input_tokens = SumSeq([k \in 1..Len(results) |-> results[k].input_tokens])
       /\ settings.output_tokens = SumSeq([k \in 1..Len(results) |-> results[k].output_tokens])


\* C22: an exception while a document is processed is recorded as the
\* failure of that document and the loop goes on: the step after the
\* document's except handler is never the job's outer except handler, the
\* document gets the outcome failed, and no CheckResult committed before is
\* changed by the handling of a document.
C22_FailureIsolation ==
  [][(job # None /\ job.pc \in {"run", "save", "except"}) =>
       /\ \A d \in 1..Len(project.documents) :
            \A k \in 1..Len(project.documents[d].check_results) :
              /\ k <= Len(project'.documents[d].check_results)
              /\ project'.documents[d].check_results[k] = project.documents[d].check_results[k]
       /\ job.pc = "except" =>
            /\ job'.pc \in {"doc", "finalize"}
            /\ Len(job'.outcomes) = Len(job.outcomes) + 1
            /\ job'.outcomes[Len(job'.outcomes)].outcome = "failed"]_vars


(***************************************************************************)
(* Properties of the page types without applicable checks.                 *)
(***************************************************************************)
\* the verdicts a CheckResult stores
StoredVerdicts(cr) == cr.completeness_results \o cr.compliance_results

\* the ids of the checks of the catalog that list the page type
ApplicableIds(page_type) ==
  {get_checks_v3[i].id : i \in {j \in 1..Len(get_checks_v3) : page_type \in get_checks_v3[j].applies_to}}

\* C23: get_checks_for_page_type gives the checks of the catalog that list
\* the page type, in catalog order, and nothing for a type the catalog does
\* not know; a run makes no provider call for a batch whose page type has
\* no applicable check and stores no verdict for its pages, and no stored
\* verdict is of a check that does not list the type of its page.
C23_ZeroCheckTypes ==
  /\ \A page_type \in PageTypes \cup {"elevation"} :
       LET checks == get_checks_for_page_type(page_type)
       IN /\ {checks[i].id : i \in 1..Len(checks)} = ApplicableIds(page_type)
          /\ Len(checks) = Cardinality(ApplicableIds(page_type))
          /\ \A i, j \in 1..Len(checks) :
               i < j => \E a, b \in 1..Len(get_checks_v3) :
                          a < b /\ get_checks_v3[a] = checks[i] /\ get_checks_v3[b] = checks[j]
  /\ get_checks_for_page_type("elevation") = <<>>
  /\ \A k \in 1..Len(check_results) :
       /\ \A b \in 1..Len(run_log[k].batches) :
            ApplicableIds(run_log[k].batches[b].page_type) = {} =>
              /\ run_log[k].responses[b] = Skipped
              /\ \A v \in 1..Len(StoredVerdicts(check_results[k])) :
                   \A i \in 1..Len(run_log[k].batches[b].pages) :
                     StoredVerdicts(check_results[k])[v].page_number # run_log[k].batches[b].pages[i]
       /\ \A v \in 1..Len(StoredVerdicts(check_results[k])) :
            StoredVerdicts(check_results[k])[v].check_id
              \in ApplicableIds(StoredVerdicts(check_results[k])[v].page_type)

\* a committed run with a batch of a page type without checks and a batch
\* with verdicts
C23_Witness ==
  \E k \in 1..Len(check_results) :
    /\ \E b \in 1..Len(run_log[k].batches) : run_log[k].responses[b] = Skipped
    /\ StoredVerdicts(check_results[k]) # <<>>

(***************************************************************************)
(* Properties of the history of CheckResults of a document.                *)
(***************************************************************************)
\* C24: no step of a run, of a job on the document or of a forced
\* reclassification changes or removes a committed CheckResult: the
\* history only grows and every earlier record keeps its run_number, its
\* verdicts and its summary.
C24_AppendOnly ==
  [][/\ Len(check_results') >= Len(check_results)
     /\ \A k \in 1..Len(check_results) :
          /\ check_results'[k].run_number = check_results[k].run_number
          /\ StoredVerdicts(check_results'[k]) = StoredVerdicts(check_results[k])
          /\ check_results'[k].completeness_results = check_results[k].completeness_results
          /\ check_results'[k].compliance_results = check_results[k].compliance_results
          /\ check_results'[k].page_check_results = check_results[k].page_check_results
          /\ check_results'[k].summary = check_results[k].summary]_vars

\* two committed runs with verdicts, the later one made after the pages
\* were classified again
C24_Witness ==
  /\ Len(check_results) >= 2
  /\ check_results[1].page_check_results # <<>>
  /\ check_results[2].page_check_results # <<>>
  /\ check_results[1].page_check_results[1].page_classification_id
       # check_results[2].page_check_results[1].page_classification_id

(***************************************************************************)
(* Properties of the PageClassification rows of a parse result.            *)
(***************************************************************************)
\* C25: in every state, overlapping runs, classify requests and jobs on
\* the document included, no two PageClassification rows of the parse
\* result have the same page_number.
C25_OneRowPerPage ==
  \A i, j \in 1..Len(page_classifications) :
    i # j => page_classifications[i].page_number # page_classifications[j].page_number

(***************************************************************************)
(* Properties of the PageCheckResult rows of a run.                        *)
(***************************************************************************)
\* C28: every committed PageCheckResult row has as check_result_id the id
\* of the CheckResult committed with it, for the single-document run and
\* for the check batch job.
C28_VerdictRowsBelongToRun ==
  project # None =>
    \A d \in 1..Len(project.documents) :
      \A k \in 1..Len(project.documents[d].check_results) :
        \A n \in 1..Len(project.documents[d].check_results[k].page_check_results) :
          project.documents[d].check_results[k].page_check_results[n].check_result_id
            = project.documents[d].check_results[k].id

(***************************************************************************)
(* Termination of the check batch job.                                     *)
(***************************************************************************)
\* C30: a BatchCheckRun whose task has started ends with one of the
\* statuses completed, completed_with_errors and failed, whatever the
\* documents, the provider and the database do.
C30_JobTermination ==
  (job # None /\ job.pc # "queued")
    ~> (batch_run # None
        /\ batch_run.status \in {"completed", "completed_with_errors", "failed"})

(***************************************************************************)
(* Properties of the summary of a CheckResult                              *)
(***************************************************************************)
Statuses == {"pass", "fail", "needs_review", "na"}

\* C20: in every persisted CheckResult each verdict has status pass, fail,
\* needs_review or na, and summary.total_checks = passed + failed +
\* needs_review + na = the number of verdicts = |completeness_results| +
\* |compliance_results|.
C20_SummaryConsistency ==
  \A i \in 1..Len(check_results) :
    LET cr == check_results[i]
        verdicts == cr.completeness_results \o cr.compliance_results
    IN /\ \A k \in 1..Len(verdicts) : verdicts[k].status \in Statuses
       /\ cr.summary.total_checks = Len(verdicts)
       /\ cr.summary.total_checks = Len(cr.page_check_results)
       /\ cr.summary.total_checks
            = cr.summary.passed + cr.summary.failed + cr.summary.needs_review + cr.summary.na
       /\ \A st \in Statuses :
            Cardinality({k \in 1..Len(verdicts) : verdicts[k].status = st})
              = CASE st = "pass" -> cr.summary.passed
                  [] st = "fail" -> cr.summary.failed
                  [] st = "needs_review" -> cr.summary.needs_review
                  [] st = "na" -> cr.summary.na


(***************************************************************************)
(* Parse batch job (backend/routers/batch.py): start_batch_process,        *)
(* run_batch_job, process_single_document and cancel_batch_job.  They are  *)
(* coroutines of one event loop: `loop` holds the callbacks that are ready *)
(* and the loop runs them one at a time, first in first out; a coroutine   *)
(* gives the loop back only where it awaits something that is not ready.   *)
(***************************************************************************)
MaxTasks == 3

MaxConcurrent == 2

Parsers == {"claude_vision", "gemini_vision"}

\* parse_document of these services is a coroutine around a blocking client
\* call (client.parse, client.messages.create, client.invoke_model): awaiting
\* it never gives the loop back
BlockingParsers == {"landing_ai", "claude_vision", "bedrock_claude"}

\* services/gemini_vision_service.py: its call of the provider is a
\* suspension point
GeminiSuspends == TRUE

Suspends(parser) == parser \notin BlockingParsers /\ GeminiSuspends

InitParse ==
  /\ call = None
  /\ ret = None
  /\ StoreUnused

parse_frame == <<harness, document, provider, page_classifications, check_results, run_log,
                 settings, next_id, runner, batch_run, job, project>>

\* BatchTask(status="pending") and the coroutine gather makes for it
NewBatchTask ==
  [status |-> "pending", pc |-> "none", parse_result |-> FALSE, progress |-> 0,
   classification |-> "none",
   skipped_by_cancel |-> FALSE, in_flight_at_cancel |-> FALSE]

\* a callback of the loop: a step of run_batch_job or of a request handler,
\* or a step of the coroutine of task i
Callback(cb, i) == [cb |-> cb, task |-> i]

\* POST /{project_id}/batch/process
StartBatchProcess(n, parser) ==
  /\ batch_job = None
  /\ batch_job' = [status |-> "pending", parser |-> parser, total_documents |-> n,
                   completed_documents |-> 0, failed_documents |-> 0]
  /\ tasks' = [i \in 1..n |-> NewBatchTask]
  /\ loop' = <<Callback("run_batch_job", 0)>>
  /\ UNCHANGED <<parse_frame, ops, semaphore>>

\* a POST /batch/jobs/{job_id}/cancel arrives
CancelRequest ==
  /\ batch_job # None
  /\ ops < MaxOps
  /\ ops' = ops + 1
  /\ loop' = Append(loop, Callback("cancel", 0))
  /\ UNCHANGED <<parse_frame, batch_job, tasks, semaphore>>

Running(cb) == loop # <<>> /\ Head(loop).cb = cb

CountTasks(ts, status) == Cardinality({i \in 1..Len(ts) : ts[i].status = status})

\* "Update job status" after gather
Finished(j, ts) ==
  [j EXCEPT !.completed_documents = CountTasks(ts, "completed"),
            !.failed_documents = CountTasks(ts, "failed"),
            !.status = IF CountTasks(ts, "failed") = 0 THEN "completed"
                       ELSE "completed_with_errors"]

\* the tasks of `order` that run_batch_job found pending, in that order
RECURSIVE PendingTasks(_, _)
PendingTasks(ts, i) ==
  IF i > Len(ts) THEN <<>>
  ELSE (IF ts[i].status = "pending" THEN <<i>> ELSE <<>>) \o PendingTasks(ts, i + 1)

\* run_batch_job up to "await asyncio.gather(...)"
RunBatchJob ==
  /\ Running("run_batch_job")
  /\ \E max_concurrent \in 1..MaxConcurrent :
       semaphore' = [max_concurrent |-> max_concurrent, value |-> max_concurrent,
                     waiters |-> <<>>]
  /\ \E found \in {PendingTasks(tasks, 1)} :
       /\ tasks' = [i \in 1..Len(tasks) |->
                      IF tasks[i].status = "pending" THEN [tasks[i] EXCEPT !.pc = "scheduled"]
                      ELSE tasks[i]]
       /\ IF found = <<>>
          THEN /\ batch_job' = Finished([batch_job EXCEPT !.status = "processing"], tasks)
               /\ loop' = Tail(loop)
          ELSE /\ batch_job' = [batch_job EXCEPT !.status = "processing"]
               /\ loop' = Tail(loop) \o [k \in 1..Len(found) |-> Callback("task", found[k])]
  /\ UNCHANGED <<parse_frame, ops>>

\* asyncio.Semaphore.locked()
Locked_never(sem) == FALSE

Locked(sem) == sem.value <= 0

\* asyncio.Semaphore.release(): the value grows and the first waiter is woken
Release(sem) == [sem EXCEPT !.value = @ + 1, !.waiters = IF @ = <<>> THEN <<>> ELSE Tail(@)]

Woken(sem) == IF sem.waiters = <<>> THEN <<>> ELSE <<Callback("task", Head(sem.waiters))>>

\* gather is done when every coroutine it made has returned
GatherDone(ts) == \A i \in 1..Len(ts) : ts[i].pc \in {"none", "done"}

\* what the loop has ready after task `i` returned with the tasks as `ts`
AfterReturn(ts) ==
  Tail(loop) \o Woken(semaphore)
  \o (IF GatherDone(ts) THEN <<Callback("gathered", 0)>> ELSE <<>>)

\* what can happen to a document from the answer of the parser on: the
\* parse fails; or the ParseResult is committed and then the document
\* classification and the page classification each succeed or raise, and
\* the database may refuse a db.flush() of save_classifications
Classifications == {"ok", "raised"}

PageClassifications == {"ok", "raised", "flush_refused"}

TaskOutcomes ==
  {[parsed |-> FALSE, document |-> "none", pages |-> "none"]}
  \cup {[parsed |-> TRUE, document |-> d, pages |-> p] :
          d \in Classifications, p \in PageClassifications}

\* process_single_document from the answer of the parser on.  A refused
\* flush leaves the session inactive: the commit of status "completed"
\* raises, the commit of the handler that sets "failed" raises too, and the
\* row keeps what was committed last (processing, progress 85 or 90)
TaskEnd(t, outcome) ==
  IF ~outcome.parsed
  THEN [t EXCEPT !.status = "failed", !.progress = 30, !.pc = "done"]
  ELSE IF outcome.pages = "flush_refused"
  THEN [t EXCEPT !.parse_result = TRUE, !.classification = outcome.pages,
                 !.progress = IF outcome.document = "ok" THEN 90 ELSE 85,
                 !.pc = "done"]
  ELSE [t EXCEPT !.status = "completed", !.progress = 100, !.parse_result = TRUE,
                 !.classification = IF outcome.document = "raised" THEN "raised"
                                    ELSE outcome.pages,
                 !.pc = "done"]

Returned(t, outcome) == TaskEnd([t EXCEPT !.status = "processing"], outcome)

\* process_with_semaphore from "async with semaphore" to the await of
\* parse_document: the task becomes processing whatever its status was
TaskBegin ==
  /\ Running("task")
  /\ tasks[Head(loop).task].pc \in {"scheduled", "woken"}
  /\ \E i \in {Head(loop).task} :
       IF Locked(semaphore)
       THEN /\ tasks' = [tasks EXCEPT ![i].pc = "waiting"]
            /\ semaphore' = [semaphore EXCEPT !.waiters = Append(@, i)]
            /\ loop' = Tail(loop)
       ELSE IF Suspends(batch_job.parser)
       THEN /\ tasks' = [tasks EXCEPT ![i].status = "processing", ![i].progress = 30,
                                      ![i].pc = "awaiting"]
            /\ semaphore' = [semaphore EXCEPT !.value = @ - 1]
            /\ loop' = Tail(loop)
       ELSE \E outcome \in TaskOutcomes :
              \E ts \in {[tasks EXCEPT ![i] = Returned(tasks[i], outcome)]} :
                /\ tasks' = [k \in 1..Len(ts) |->
                               IF <<Callback("task", k)>> = Woken(semaphore)
                               THEN [ts[k] EXCEPT !.pc = "woken"] ELSE ts[k]]
                /\ semaphore' = Release([semaphore EXCEPT !.value = @ - 1])
                /\ loop' = AfterReturn(ts)
  /\ UNCHANGED <<parse_frame, ops, batch_job>>

\* the provider answers the parse call of an awaiting task
ProviderAnswers(i) ==
  /\ i \in 1..Len(tasks)
  /\ tasks[i].pc = "awaiting"
  /\ tasks' = [tasks EXCEPT ![i].pc = "resumed"]
  /\ loop' = Append(loop, Callback("task", i))
  /\ UNCHANGED <<parse_frame, ops, batch_job, semaphore>>

\* process_single_document after the await, and the end of "async with"
TaskResume ==
  /\ Running("task")
  /\ tasks[Head(loop).task].pc = "resumed"
  /\ \E i \in {Head(loop).task}, outcome \in TaskOutcomes :
       \E ts \in {[tasks EXCEPT ![i] = Returned(tasks[i], outcome)]} :
         /\ tasks' = [k \in 1..Len(ts) |->
                        IF <<Callback("task", k)>> = Woken(semaphore)
                        THEN [ts[k] EXCEPT !.pc = "woken"] ELSE ts[k]]
         /\ semaphore' = Release(semaphore)
         /\ loop' = AfterReturn(ts)
  /\ UNCHANGED <<parse_frame, ops, batch_job>>

\* run_batch_job after gather
Gathered ==
  /\ Running("gathered")
  /\ batch_job' = Finished(batch_job, tasks)
  /\ loop' = Tail(loop)
  /\ UNCHANGED <<parse_frame, ops, tasks, semaphore>>

\* cancel_batch_job
CancelBatchJob ==
  /\ Running("cancel")
  /\ loop' = Tail(loop)
  /\ IF batch_job.status \in {"completed", "failed", "cancelled"}
     THEN UNCHANGED <<batch_job, tasks>>
     ELSE /\ batch_job' = [batch_job EXCEPT !.status = "cancelled"]
          /\ tasks' = [i \in 1..Len(tasks) |->
                         IF tasks[i].status = "pending"
                         THEN [tasks[i] EXCEPT !.status = "skipped", !.skipped_by_cancel = TRUE]
                         ELSE IF tasks[i].pc \in {"awaiting", "resumed"}
                         THEN [tasks[i] EXCEPT !.in_flight_at_cancel = TRUE]
                         ELSE tasks[i]]
  /\ UNCHANGED <<parse_frame, ops, semaphore>>

NextParse ==
  \/ \E n \in 1..MaxTasks, parser \in Parsers : StartBatchProcess(n, parser)
  \/ CancelRequest
  \/ RunBatchJob
  \/ TaskBegin
  \/ \E i \in 1..MaxTasks : ProviderAnswers(i)
  \/ TaskResume
  \/ Gathered
  \/ CancelBatchJob

SpecParse == InitParse /\ [][NextParse]_vars

\* C16: a task that cancel_batch_job found pending is skipped and stays so,
\* without a parse result; a task that was in flight then is not skipped
\* and, once completed, has its parse result.
C16_Cancellation ==
  \A i \in 1..Len(tasks) :
    /\ tasks[i].skipped_by_cancel =>
         tasks[i].status = "skipped" /\ ~tasks[i].parse_result
    /\ tasks[i].in_flight_at_cancel =>
         /\ tasks[i].status \in {"processing", "completed", "failed"}
         /\ tasks[i].status = "completed" => tasks[i].parse_result

InFlight == {i \in 1..Len(tasks) : tasks[i].pc \in {"awaiting", "resumed"}}

\* C17: the number of documents being processed at the same time never
\* exceeds the ceiling the semaphore of run_batch_job was made with.
C17_ConcurrencyCeiling ==
  semaphore # None =>
    /\ Cardinality(InFlight) <= semaphore.max_concurrent
    /\ semaphore.value = semaphore.max_concurrent - Cardinality(InFlight)

\* the ceiling is reached while another task waits for the semaphore
C17_Witness ==
  /\ semaphore # None
  /\ semaphore.max_concurrent = MaxConcurrent
  /\ Cardinality(InFlight) = MaxConcurrent
  /\ semaphore.waiters # <<>>

\* C26: once the ParseResult of a task is committed, an exception of the
\* document classification, of the page classification or of
\* save_classifications does not stop the task: it ends completed with
\* progress 100 and keeps its parse result.
C26_ClassificationNeverFailsParsing ==
  \A i \in 1..Len(tasks) :
    (tasks[i].pc = "done" /\ tasks[i].classification \in {"raised", "flush_refused"}) =>
      /\ tasks[i].parse_result
      /\ tasks[i].status = "completed"
      /\ tasks[i].progress = 100

\* C27: once the status of the BatchJob is completed, completed_with_errors,
\* failed or cancelled no step changes it, the end of a run_batch_job that
\* is still under way included, and cancel_batch_job on such a job leaves
\* the job and its tasks as they are.
C27_TerminalAbsorbing ==
  [][(batch_job # None /\ batch_job.status \in Terminal) =>
       /\ batch_job'.status = batch_job.status
       /\ Running("cancel") => (batch_job' = batch_job /\ tasks' = tasks)]_vars

====
